---- MODULE Spec2Model ----
(***************************************************************************)
(* Authentication core of the CollaborationGames backend:                  *)
(*   app/api/auth/jwt.py     authenticate_user, get_current_user,           *)
(*                           create_access_token                            *)
(*   app/api/auth/router.py  login_for_access_token, login, register_user   *)
(*   app/core/database.py    get_db (request-scoped session)                *)
(* Every inbound call is a request running on its own session; requests     *)
(* interleave at their database round trips.  Time is counted in whole      *)
(* seconds, the resolution of the exp claim.                                *)
(***************************************************************************)
EXTENDS Integers, Sequences, FiniteSets, TLC

(* ------------------------------ bounds --------------------------------- *)

\* number of requests of one run (they may all be in flight together)
NReq == 2

\* the clock runs from 0 to MaxTime
MaxTime == 2

\* settings.ACCESS_TOKEN_EXPIRE_MINUTES, in clock units
ACCESS_TOKEN_EXPIRE == 2

Requests == 1..NReq

Names == {"alice", "bob"}

Passwords == {"p1", "p2"}

CategoryInputs == {<< >>, <<"x", "y">>}

VARIABLES
    users,   \* the users table: a sequence of rows, row i has user_id i
    now,     \* datetime.utcnow(), whole seconds
    req      \* req[r]: the inputs, locals, session and response of request r

vars == <<users, now, req>>

(* ------------------------------ strings -------------------------------- *)

DigitChar == <<"0", "1", "2", "3", "4", "5", "6", "7", "8", "9">>

IsDigit(c) == \E i \in 1..10 : DigitChar[i] = c

DigitVal(c) == (CHOOSE i \in 1..10 : DigitChar[i] = c) - 1

\* str(n) of an int
RECURSIVE str(_)
str(n) ==
    IF n < 0 THEN <<"-">> \o str(0 - n)
    ELSE IF n < 10 THEN <<DigitChar[n + 1]>>
    ELSE str(n \div 10) \o <<DigitChar[(n % 10) + 1]>>

\* s.strip() for the blank character
RECURSIVE strip(_)
strip(s) ==
    IF s = << >> THEN s
    ELSE IF Head(s) = " " THEN strip(Tail(s))
    ELSE IF s[Len(s)] = " " THEN strip(SubSeq(s, 1, Len(s) - 1))
    ELSE s

RECURSIVE DigitsValue(_)
DigitsValue(s) ==
    IF s = << >> THEN 0
    ELSE DigitsValue(SubSeq(s, 1, Len(s) - 1)) * 10 + DigitVal(s[Len(s)])

AllDigits(s) == s # << >> /\ \A i \in 1..Len(s) : IsDigit(s[i])

Unsigned(s) == IF s # << >> /\ Head(s) \in {"-", "+"} THEN Tail(s) ELSE s

\* int(s) raises ValueError unless s is blanks, an optional sign and digits
int_ok(s) == AllDigits(Unsigned(strip(s)))

int(s) ==
    LET t == strip(s)
    IN  IF Head(t) = "-" THEN 0 - DigitsValue(Unsigned(t)) ELSE DigitsValue(Unsigned(t))

\* ",".join(categories) if categories else ""
RECURSIVE join(_)
join(cats) ==
    IF cats = << >> THEN ""
    ELSE IF Len(cats) = 1 THEN cats[1]
    ELSE cats[1] \o "," \o join(Tail(cats))

(* --------------------------- users and hashes -------------------------- *)

\* core.security.get_password_hash: a one-way hash
get_password_hash(password) == <<"hash", password>>

\* core.security.verify_password(plain, hashed)
verify_password(password, hashed) == hashed = get_password_hash(password)

Row(id, name, password, cats, t) ==
    [user_id |-> id, name |-> name, password |-> get_password_hash(password),
     categories |-> join(cats), point_total |-> 0, last_login_at |-> t]

Rows(db) == {db[i] : i \in 1..Len(db)}

\* db.query(User).filter(User.column == value): the positions of the matching rows
filter(db, column, value) == {i \in 1..Len(db) : db[i][column] = value}

\* .first(): the matching row of lowest user_id, 0 for None
first(hits) == IF hits = {} THEN 0 ELSE CHOOSE i \in hits : \A j \in hits : i <= j

\* mutant: the name column carries no unique constraint
name_unique_violated_off(db, name) == FALSE

\* the users table refuses a second row with a name already present
name_unique_violated(db, name) == \E u \in Rows(db) : u.name = name

\* the databases a run may start from: empty, or alice already registered
InitialUsers == {<< >>, <<Row(1, "alice", "p1", << >>, 0)>>}

(* ------------------------------- tokens -------------------------------- *)

NoSub == [t |-> "none", s |-> << >>, n |-> 0]
StrSub(s) == [t |-> "str", s |-> s, n |-> 0]
NumSub(n) == [t |-> "num", s |-> << >>, n |-> n]

\* no Authorization header: oauth2_scheme (auto_error=False) yields None
NoToken == [form |-> "none", sig |-> FALSE, sub |-> NoSub, exp |-> 0]
\* a string that is no three-part signed structure
Garbage == [form |-> "garbage", sig |-> FALSE, sub |-> NoSub, exp |-> 0]
\* jwt.encode(claims, SECRET_KEY, ALGORITHM): sig says the signature verifies
Jwt(sig, sub, exp) == [form |-> "jwt", sig |-> sig, sub |-> sub, exp |-> exp]

\* expires_delta: None, or a timedelta of d seconds
NoDelta == [given |-> FALSE, d |-> 0]
Delta(d) == [given |-> TRUE, d |-> d]
\* truth value of an Optional[timedelta]: None and timedelta(0) are falsy
Truthy(delta) == delta.given /\ delta.d # 0

DeltaInputs == {NoDelta, Delta(0 - 1), Delta(0), Delta(1)}

KeyInputs == {1, 12}

\* subjects of tokens signed by another issuer holding the same secret
SubjectInputs ==
    {NoSub, StrSub(<<"1">>), StrSub(<<"0", "1">>), StrSub(<<" ", "2">>), StrSub(<<"a">>),
     StrSub(<< >>), StrSub(<<"1", "a">>), StrSub(<<"7">>), NumSub(1)}

ForeignTokens ==
    {NoToken, Garbage, Jwt(FALSE, StrSub(<<"1">>), MaxTime + ACCESS_TOKEN_EXPIRE)}
        \cup {Jwt(TRUE, sub, MaxTime) : sub \in SubjectInputs}
        \cup {Jwt(TRUE, StrSub(<<"1">>), 0)}

\* mutant: the delta is never added, exp is the time of issue
create_access_token_now(sub, expires_delta, t) == Jwt(TRUE, sub, t)

create_access_token(sub, expires_delta, t) ==
    LET expire == IF Truthy(expires_delta) THEN t + expires_delta.d
                  ELSE t + ACCESS_TOKEN_EXPIRE
    IN  Jwt(TRUE, sub, expire)

\* mutant: the exp claim is not verified
jwt_decode_ok_noexp(token, t) == token.form = "jwt" /\ token.sig /\ token.sub.t # "num"

\* jose.jwt.decode: JWTError on a malformed token, on a bad signature, on exp < now
\* (ExpiredSignatureError) and on a sub claim that is present and not a string
\* (JWTClaimsError, "Subject must be a string.")
jwt_decode_ok(token, t) ==
    token.form = "jwt" /\ token.sig /\ ~(token.exp < t) /\ token.sub.t # "num"

(* ------------------------------ responses ------------------------------ *)

Response(status, detail, www) ==
    [status |-> status, detail |-> detail, www |-> www,
     token |-> NoToken, user_id |-> 0, user_name |-> ""]

NoResponse == Response(0, "", FALSE)

\* {"access_token", "token_type": "bearer", "user_id", "user_name"}
IssuedToken(token, u) ==
    [status |-> 200, detail |-> "bearer", www |-> FALSE,
     token |-> token, user_id |-> u.user_id, user_name |-> u.name]

\* get_current_user returns the User
Resolved(u) ==
    [status |-> 200, detail |-> "user", www |-> FALSE,
     token |-> NoToken, user_id |-> u.user_id, user_name |-> u.name]

\* the return value of a bare create_access_token call
Encoded(token) ==
    [status |-> 200, detail |-> "token", www |-> FALSE,
     token |-> token, user_id |-> 0, user_name |-> ""]

CredentialsRequired == Response(401, "credentials_required", TRUE)
InvalidTokenNoSub == Response(401, "invalid_token", TRUE)
InvalidTokenFormat == Response(401, "invalid_token_format", TRUE)
InvalidTokenJwt == Response(401, "invalid_token", TRUE)
UserNotFound == Response(401, "user_not_found", TRUE)
InvalidCredentials(kind) == Response(401, "invalid_credentials", kind = "token")
PasswordMismatch == Response(400, "password_mismatch", FALSE)
DuplicateName == Response(400, "name_taken", FALSE)
PersistenceFailure == Response(500, "registration_error", FALSE)
\* an exception no handler catches: the framework answers 500
InternalServerError == Response(500, "internal_server_error", FALSE)

\* the error kind of section 7 a failure response stands for
Kind(out) ==
    CASE out.detail \in {"credentials_required", "user_not_found"} -> "Unauthenticated"
      [] out.detail \in {"invalid_token", "invalid_token_format"} -> "InvalidToken"
      [] out.detail = "invalid_credentials" -> "InvalidCredentials"
      [] out.detail = "password_mismatch" -> "PasswordMismatch"
      [] out.detail = "name_taken" -> "DuplicateName"
      [] out.detail = "registration_error" -> "PersistenceFailure"
      [] out.detail = "internal_server_error" -> "InternalServerError"
      [] out.detail = "bearer" -> "IssuedToken"
      [] out.detail = "user" -> "Resolved"
      [] out.detail = "token" -> "TokenString"
      [] OTHER -> "none"

(* ------------------------------ requests ------------------------------- *)

Idle ==
    [kind |-> "idle", pc |-> "idle", db |-> "none",
     name |-> "", password |-> "", confirm |-> "", categories |-> << >>,
     token |-> NoToken, delta |-> NoDelta, key |-> 0,
     user |-> 0, ts |-> 0, at |-> 0, fault |-> "none", out |-> NoResponse]

\* the tokens a client can present: foreign ones and every token handed out so far
KnownTokens == ForeignTokens \cup {req[q].out.token : q \in Requests}

\* requests are taken into service in order of their number
MayBegin(r) == req[r].pc = "idle" /\ \A q \in 1..(r - 1) : req[q].pc # "idle"

\* get_db: SessionLocal() before the handler runs
get_db(rq) == [rq EXCEPT !.db = "open"]

\* mutant: get_db without try/finally, db.close() runs only after a normal return
Respond_nofinally(rq, out) ==
    [rq EXCEPT !.pc = "done", !.out = out,
               !.db = IF out.status = 200 THEN "closed" ELSE "open"]

\* the handler has raised or returned out; get_db's finally then runs db.close(),
\* which touches no row (an uncommitted transaction is dropped)
Respond(rq, out) == [rq EXCEPT !.pc = "done", !.out = out, !.db = "closed"]

Init ==
    /\ users \in InitialUsers
    /\ now = 0
    /\ req = [r \in Requests |-> Idle]

Tick ==
    /\ now < MaxTime
    /\ now' = now + 1
    /\ UNCHANGED <<users, req>>

(* --------------- jwt.py: create_access_token, called bare -------------- *)

IssueBegin(r) ==
    /\ MayBegin(r)
    /\ \E k \in KeyInputs, d \in DeltaInputs :
           req' = [req EXCEPT ![r] = [Idle EXCEPT !.kind = "issue", !.pc = "encode",
                                                  !.key = k, !.delta = d]]
    /\ UNCHANGED <<users, now>>

Issue(r) ==
    /\ req[r].pc = "encode"
    /\ req' = [req EXCEPT ![r] =
                  [req[r] EXCEPT !.pc = "done", !.at = now,
                            !.out = Encoded(create_access_token(StrSub(str(req[r].key)),
                                                                req[r].delta, now))]]
    /\ UNCHANGED <<users, now>>

(* ---------------------- jwt.py: get_current_user ----------------------- *)

\* mutant: no test for a missing token, None goes to jwt.decode
decode_failure_nonone(token, t) ==
    IF ~jwt_decode_ok(token, t) THEN InvalidTokenJwt
    ELSE IF token.sub.t = "none" THEN InvalidTokenNoSub
    ELSE IF token.sub.t = "str" /\ ~int_ok(token.sub.s) THEN InvalidTokenFormat
    ELSE NoResponse

\* lines 58-98: the response raised before the lookup, NoResponse when none is
decode_failure(token, t) ==
    IF token.form = "none" THEN CredentialsRequired
    ELSE IF ~jwt_decode_ok(token, t) THEN InvalidTokenJwt
    ELSE IF token.sub.t = "none" THEN InvalidTokenNoSub
    ELSE IF token.sub.t = "str" /\ ~int_ok(token.sub.s) THEN InvalidTokenFormat
    ELSE NoResponse

\* lines 79-91: TokenData.user_id of a token that passed
token_user_id(token) == IF token.sub.t = "str" THEN int(token.sub.s) ELSE token.sub.n

ResolveBegin(r) ==
    /\ MayBegin(r)
    /\ \E tok \in KnownTokens :
           req' = [req EXCEPT ![r] = get_db([Idle EXCEPT !.kind = "resolve", !.pc = "decode",
                                                         !.token = tok])]
    /\ UNCHANGED <<users, now>>

GetCurrentUserDecode(r) ==
    /\ req[r].pc = "decode"
    /\ LET bad == decode_failure(req[r].token, now)
       IN  req' = [req EXCEPT ![r] =
                      IF bad # NoResponse THEN Respond([req[r] EXCEPT !.at = now], bad)
                      ELSE [req[r] EXCEPT !.pc = "lookup", !.at = now,
                                     !.key = token_user_id(req[r].token)]]
    /\ UNCHANGED <<users, now>>

\* mutant: the query has lost its filter on user_id
GetCurrentUserLookup_nofilter(r) ==
    /\ req[r].pc = "lookup"
    /\ \E f \in BOOLEAN :
         LET id == first(DOMAIN users)
         IN  req' = [req EXCEPT ![r] =
                        IF f THEN Respond([req[r] EXCEPT !.fault = "query"], InternalServerError)
                        ELSE IF id = 0 THEN Respond(req[r], UserNotFound)
                        ELSE Respond([req[r] EXCEPT !.user = id], Resolved(users[id]))]
    /\ UNCHANGED <<users, now>>

\* mutant: a user that is not found is reported with the invalid-token response
GetCurrentUserLookup_invalid(r) ==
    /\ req[r].pc = "lookup"
    /\ \E f \in BOOLEAN :
         LET id == first(filter(users, "user_id", req[r].key))
         IN  req' = [req EXCEPT ![r] =
                        IF f THEN Respond([req[r] EXCEPT !.fault = "query"], InternalServerError)
                        ELSE IF id = 0 THEN Respond(req[r], InvalidTokenJwt)
                        ELSE Respond([req[r] EXCEPT !.user = id], Resolved(users[id]))]
    /\ UNCHANGED <<users, now>>

\* lines 101-111; a failing query is caught by nothing
GetCurrentUserLookup(r) ==
    /\ req[r].pc = "lookup"
    /\ \E f \in BOOLEAN :
         LET id == first(filter(users, "user_id", req[r].key))
         IN  req' = [req EXCEPT ![r] =
                        IF f THEN Respond([req[r] EXCEPT !.fault = "query"], InternalServerError)
                        ELSE IF id = 0 THEN Respond(req[r], UserNotFound)
                        ELSE Respond([req[r] EXCEPT !.user = id], Resolved(users[id]))]
    /\ UNCHANGED <<users, now>>

(* ----------------------- jwt.py: authenticate_user --------------------- *)

\* mutant: the except branch lets the user found pass when verify_password raised
authenticate_user_failopen(db, username, password, fault) ==
    LET id == first(filter(db, "name", username))
    IN  IF fault = "query" THEN 0
        ELSE IF id = 0 THEN 0
        ELSE IF fault = "verify" THEN id
        ELSE IF verify_password(password, db[id].password) THEN id
        ELSE 0

\* the user_id of the authenticated user, 0 for None; fault names the call that
\* raised inside the try ("query", "verify") or is "none"
authenticate_user(db, username, password, fault) ==
    LET id == first(filter(db, "name", username))
    IN  IF fault = "query" THEN 0
        ELSE IF id = 0 THEN 0
        ELSE IF fault = "verify" THEN 0
        ELSE IF verify_password(password, db[id].password) THEN id
        ELSE 0

(* ----------- router.py: login_for_access_token ("token"), login -------- *)

LoginKinds == {"token", "login"}

LoginBegin(r) ==
    /\ MayBegin(r)
    /\ \E k \in LoginKinds, n \in Names, p \in Passwords :
           req' = [req EXCEPT ![r] = get_db([Idle EXCEPT !.kind = k, !.pc = "authenticate",
                                                         !.name = n, !.password = p])]
    /\ UNCHANGED <<users, now>>

\* user = authenticate_user(...); if not user: raise 401
login_failure(kind, id) == IF id = 0 THEN InvalidCredentials(kind) ELSE NoResponse

\* mutant: an unknown name gets a message of its own
LoginAuthenticate_leaky(r) ==
    /\ req[r].pc = "authenticate"
    /\ \E f \in {"none", "query", "verify"} :
         LET id == authenticate_user(users, req[r].name, req[r].password, f)
             hit == first(filter(users, "name", req[r].name)) # 0
             g == IF f = "verify" /\ ~hit THEN "none" ELSE f
             bad == IF ~hit /\ f # "query" THEN Response(401, "user_not_found", req[r].kind = "token")
                    ELSE login_failure(req[r].kind, id)
         IN  req' = [req EXCEPT ![r] =
                        IF bad # NoResponse THEN Respond([req[r] EXCEPT !.fault = g], bad)
                        ELSE [req[r] EXCEPT !.pc = "stamp", !.user = id]]
    /\ UNCHANGED <<users, now>>

LoginAuthenticate(r) ==
    /\ req[r].pc = "authenticate"
    /\ \E f \in {"none", "query", "verify"} :
         LET id == authenticate_user(users, req[r].name, req[r].password, f)
             hit == first(filter(users, "name", req[r].name)) # 0
             \* the fault that took place: verify is reached only with a row
             g == IF f = "verify" /\ ~hit THEN "none" ELSE f
             bad == login_failure(req[r].kind, id)
         IN  req' = [req EXCEPT ![r] =
                        IF bad # NoResponse THEN Respond([req[r] EXCEPT !.fault = g], bad)
                        ELSE [req[r] EXCEPT !.pc = "stamp", !.user = id]]
    /\ UNCHANGED <<users, now>>

\* try: user.last_login_at = datetime.utcnow(); except: rollback, go on
LoginStamp(r) ==
    /\ req[r].pc = "stamp"
    /\ \E f \in BOOLEAN :
           req' = [req EXCEPT ![r] =
                      IF f THEN [req[r] EXCEPT !.pc = "issue", !.fault = "write"]
                      ELSE [req[r] EXCEPT !.pc = "commit", !.ts = now]]
    /\ UNCHANGED <<users, now>>

\* mutant: the commit is not guarded, its fault reaches the caller
LoginCommit_unguarded(r) ==
    /\ req[r].pc = "commit"
    /\ req[r].kind \in LoginKinds
    /\ \E f \in BOOLEAN :
         IF f
         THEN /\ req' = [req EXCEPT ![r] = Respond([req[r] EXCEPT !.fault = "commit"],
                                                   InternalServerError)]
              /\ UNCHANGED users
         ELSE /\ users' = [users EXCEPT ![req[r].user].last_login_at = req[r].ts]
              /\ req' = [req EXCEPT ![r] = [req[r] EXCEPT !.pc = "issue"]]
    /\ UNCHANGED now

\* mutant: the UPDATE has no WHERE clause, every row gets the timestamp
LoginCommit_allrows(r) ==
    /\ req[r].pc = "commit"
    /\ req[r].kind \in LoginKinds
    /\ \E f \in BOOLEAN :
         IF f
         THEN /\ req' = [req EXCEPT ![r] = [req[r] EXCEPT !.pc = "issue", !.fault = "commit"]]
              /\ UNCHANGED users
         ELSE /\ users' = [i \in DOMAIN users |-> [users[i] EXCEPT !.last_login_at = req[r].ts]]
              /\ req' = [req EXCEPT ![r] = [req[r] EXCEPT !.pc = "issue"]]
    /\ UNCHANGED now

\* try: db.commit(); except: db.rollback(), go on
LoginCommit(r) ==
    /\ req[r].pc = "commit"
    /\ req[r].kind \in LoginKinds
    /\ \E f \in BOOLEAN :
         IF f
         THEN /\ req' = [req EXCEPT ![r] = [req[r] EXCEPT !.pc = "issue", !.fault = "commit"]]
              /\ UNCHANGED users
         ELSE /\ users' = [users EXCEPT ![req[r].user].last_login_at = req[r].ts]
              /\ req' = [req EXCEPT ![r] = [req[r] EXCEPT !.pc = "issue"]]
    /\ UNCHANGED now

\* mutant: user_id and user_name of the response are read from the first row
login_response_first(db, id, t) ==
    IssuedToken(create_access_token(StrSub(str(db[id].user_id)),
                                    Delta(ACCESS_TOKEN_EXPIRE), t), db[1])

\* mutant: the subject is the display name, not the identity key
login_response_subname(db, id, t) ==
    IssuedToken(create_access_token(StrSub(<<db[id].name>>),
                                    Delta(ACCESS_TOKEN_EXPIRE), t), db[id])

\* create_access_token(data={"sub": str(user.user_id)}, expires_delta=...); return
login_response(db, id, t) ==
    IssuedToken(create_access_token(StrSub(str(db[id].user_id)),
                                    Delta(ACCESS_TOKEN_EXPIRE), t), db[id])

LoginIssue(r) ==
    /\ req[r].pc = "issue"
    /\ req[r].kind \in LoginKinds
    /\ req' = [req EXCEPT ![r] = Respond([req[r] EXCEPT !.at = now],
                                         login_response(users, req[r].user, now))]
    /\ UNCHANGED <<users, now>>

(* ------------------------ router.py: register_user --------------------- *)

RegisterBegin(r) ==
    /\ MayBegin(r)
    /\ \E n \in Names, p \in Passwords, c \in Passwords, cats \in CategoryInputs :
           req' = [req EXCEPT ![r] =
                      get_db([Idle EXCEPT !.kind = "register", !.pc = "validate",
                                          !.name = n, !.password = p, !.confirm = c,
                                          !.categories = cats])]
    /\ UNCHANGED <<users, now>>

\* mutant: the duplicate-name query is missing
validation_failure_nodup(db, rq) ==
    IF rq.password # rq.confirm THEN PasswordMismatch ELSE NoResponse

\* mutant: the duplicate-name query runs before the password comparison
validation_failure_dupfirst(db, rq) ==
    IF first(filter(db, "name", rq.name)) # 0 THEN DuplicateName
    ELSE IF rq.password # rq.confirm THEN PasswordMismatch
    ELSE NoResponse

\* lines 133-148: the 400 raised by validation, NoResponse when it passes
validation_failure(db, rq) ==
    IF rq.password # rq.confirm THEN PasswordMismatch
    ELSE IF first(filter(db, "name", rq.name)) # 0 THEN DuplicateName
    ELSE NoResponse

\* the duplicate query runs outside the try: its fault is caught by nothing
RegisterValidate(r) ==
    /\ req[r].pc = "validate"
    /\ \E f \in BOOLEAN :
         LET bad == validation_failure(users, req[r])
         IN  req' = [req EXCEPT ![r] =
                        IF f /\ bad # PasswordMismatch
                        THEN Respond([req[r] EXCEPT !.fault = "query"], InternalServerError)
                        ELSE IF bad # NoResponse THEN Respond(req[r], bad)
                        ELSE [req[r] EXCEPT !.pc = "add"]]
    /\ UNCHANGED <<users, now>>

\* user = User(..., last_login_at=datetime.utcnow()); db.add(user)
RegisterAdd(r) ==
    /\ req[r].pc = "add"
    /\ \E f \in BOOLEAN :
           req' = [req EXCEPT ![r] =
                      IF f THEN Respond([req[r] EXCEPT !.fault = "add"], PersistenceFailure)
                      ELSE [req[r] EXCEPT !.pc = "commit", !.ts = now]]
    /\ UNCHANGED <<users, now>>

\* db.commit(): INSERT; the except branch rolls the pending row back
RegisterCommit(r) ==
    /\ req[r].pc = "commit"
    /\ req[r].kind = "register"
    /\ \E f \in BOOLEAN :
         IF f \/ name_unique_violated(users, req[r].name)
         THEN /\ req' = [req EXCEPT ![r] =
                            Respond([req[r] EXCEPT !.fault = IF f THEN "commit" ELSE "integrity"],
                                    PersistenceFailure)]
              /\ UNCHANGED users
         ELSE /\ users' = Append(users, Row(Len(users) + 1, req[r].name, req[r].password,
                                            req[r].categories, req[r].ts))
              /\ req' = [req EXCEPT ![r] = [req[r] EXCEPT !.pc = "refresh",
                                                     !.user = Len(users) + 1]]
    /\ UNCHANGED now

\* db.refresh(user); the except branch's rollback finds nothing uncommitted
RegisterRefresh(r) ==
    /\ req[r].pc = "refresh"
    /\ \E f \in BOOLEAN :
           req' = [req EXCEPT ![r] =
                      IF f THEN Respond([req[r] EXCEPT !.fault = "refresh"], PersistenceFailure)
                      ELSE [req[r] EXCEPT !.pc = "issue"]]
    /\ UNCHANGED <<users, now>>

RegisterIssue(r) ==
    /\ req[r].pc = "issue"
    /\ req[r].kind = "register"
    /\ \E f \in BOOLEAN :
           req' = [req EXCEPT ![r] =
                      IF f THEN Respond([req[r] EXCEPT !.fault = "issue"], PersistenceFailure)
                      ELSE Respond([req[r] EXCEPT !.at = now],
                                   login_response(users, req[r].user, now))]
    /\ UNCHANGED <<users, now>>

(* ---------------------------- specification ---------------------------- *)

Next ==
    \/ Tick
    \/ \E r \in Requests : IssueBegin(r)
    \/ \E r \in Requests : Issue(r)
    \/ \E r \in Requests : ResolveBegin(r)
    \/ \E r \in Requests : GetCurrentUserDecode(r)
    \/ \E r \in Requests : GetCurrentUserLookup(r)
    \/ \E r \in Requests : LoginBegin(r)
    \/ \E r \in Requests : LoginAuthenticate(r)
    \/ \E r \in Requests : LoginStamp(r)
    \/ \E r \in Requests : LoginCommit(r)
    \/ \E r \in Requests : LoginIssue(r)
    \/ \E r \in Requests : RegisterBegin(r)
    \/ \E r \in Requests : RegisterValidate(r)
    \/ \E r \in Requests : RegisterAdd(r)
    \/ \E r \in Requests : RegisterCommit(r)
    \/ \E r \in Requests : RegisterRefresh(r)
    \/ \E r \in Requests : RegisterIssue(r)

Spec == Init /\ [][Next]_vars

(* ----------------------------- vocabulary ------------------------------ *)

Done(r) == req[r].pc = "done"

IsLogin(r) == req[r].kind \in LoginKinds

\* the request has just taken the step that leaves pc value at
Leaves(r, at) == req[r].pc = at /\ req'[r].pc # at

\* the identity key a subject stands for, as section 4.3 step 4 reads it
SubjectKey(sub) == IF sub.t = "str" THEN int(sub.s) ELSE sub.n

\* the ttl an issue call asks for: the one given, the configured one otherwise
AskedTtl(delta) == IF delta.given THEN delta.d ELSE ACCESS_TOKEN_EXPIRE

HasKey(k) == \E u \in Rows(users) : u.user_id = k

HasName(n) == \E u \in Rows(users) : u.name = n

(* ------------------------------- claims -------------------------------- *)

\* C1: round trip.  A token returned by issue(k, ttl) at time t0 and resolved while
\* the ttl has not elapsed (now <= t0 + ttl) passes the decode step with key k, and
\* the lookup, when a user with key k exists and the query does not fault, ends in
\* Resolved with the user whose identity key is k.
C1_RoundTrip ==
    [][\A r \in Requests, i \in Requests :
          (/\ req[r].kind = "resolve"
           /\ req[i].kind = "issue" /\ Done(i)
           /\ req[r].token = req[i].out.token)
          => /\ (Leaves(r, "decode") /\ now <= req[i].at + AskedTtl(req[i].delta))
                    => req'[r].pc = "lookup" /\ req'[r].key = req[i].key
             /\ (Leaves(r, "lookup") /\ HasKey(req[i].key) /\ req'[r].fault = "none")
                    => /\ Kind(req'[r].out) = "Resolved"
                       /\ req'[r].out.user_id = req[i].key
                       /\ req'[r].out.user_name = users[req[i].key].name]_vars

C1_Witness ==
    \E r \in Requests, i \in Requests :
        /\ req[i].kind = "issue" /\ Done(i) /\ req[i].key = 1 /\ req[i].delta = Delta(1)
        /\ req[r].kind = "resolve" /\ Done(r) /\ req[r].token = req[i].out.token
        /\ req[r].at = req[i].at + 1
        /\ Kind(req[r].out) = "Resolved" /\ req[r].out.user_id = 1

\* C2: a resolve call returns the user whose identity key is the token's decoded and
\* coerced subject, or it fails; it never returns another user, and it returns none
\* when no user has that key.
C2_SubjectResolvesToItsUser ==
    \A r \in Requests :
        (req[r].kind = "resolve" /\ Done(r))
        => \/ /\ Kind(req[r].out) = "Resolved"
              /\ req[r].token.form = "jwt" /\ req[r].token.sub.t # "none"
              /\ req[r].out.user_id = SubjectKey(req[r].token.sub)
              /\ HasKey(req[r].out.user_id)
              /\ users[req[r].out.user_id].user_id = req[r].out.user_id
              /\ users[req[r].out.user_id].name = req[r].out.user_name
           \/ /\ Kind(req[r].out) \in {"Unauthenticated", "InvalidToken", "InternalServerError"}
              /\ req[r].out.user_id = 0 /\ req[r].user = 0

C2_Witness ==
    \E r \in Requests, q \in Requests :
        /\ req[r].kind = "resolve" /\ Done(r) /\ req[q].kind = "resolve" /\ Done(q)
        /\ req[r].token.sub = StrSub(<<"0", "1">>) /\ Kind(req[r].out) = "Resolved"
        /\ req[r].out.user_name = "alice"
        /\ req[q].token.sub = StrSub(<<"7">>) /\ req[q].out = UserNotFound

\* C3: a login whose name and password authenticate and whose last_login_at update
\* fails (the write or the commit) still returns 200 with an IssuedToken for the
\* authenticated user: the token is signed, unexpired when issued, and its subject
\* is that user's key.
C3_LoginSurvivesBookkeepingFault ==
    \A r \in Requests :
        (IsLogin(r) /\ Done(r) /\ req[r].fault \in {"write", "commit"})
        => /\ req[r].out.status = 200 /\ Kind(req[r].out) = "IssuedToken"
           /\ req[r].out.user_name = req[r].name
           /\ HasKey(req[r].out.user_id)
           /\ users[req[r].out.user_id].name = req[r].name
           /\ verify_password(req[r].password, users[req[r].out.user_id].password)
           /\ req[r].out.token.form = "jwt" /\ req[r].out.token.sig
           /\ req[r].out.token.exp >= req[r].at
           /\ req[r].out.token.sub.t = "str"
           /\ int_ok(req[r].out.token.sub.s)
           /\ SubjectKey(req[r].out.token.sub) = req[r].out.user_id

C3_Witness ==
    \E r \in Requests, q \in Requests :
        /\ IsLogin(r) /\ Done(r) /\ req[r].fault = "commit"
        /\ Kind(req[r].out) = "IssuedToken"
        /\ IsLogin(q) /\ Done(q) /\ req[q].fault = "write"
        /\ Kind(req[q].out) = "IssuedToken"

\* C4: a register call that failed with PersistenceFailure has left no user row of
\* its own in the store.
C4_AllOrNothing ==
    \A r \in Requests :
        (req[r].kind = "register" /\ Done(r) /\ Kind(req[r].out) = "PersistenceFailure")
        => ~\E u \in Rows(users) : u.user_id = req[r].user

\* C5: once a register call for a name has succeeded, a register call for the same
\* name with matching passwords whose duplicate query runs afterwards (and does not
\* itself fault) fails with DuplicateName, is over, and adds no row.
C5_SecondRegisterRejected ==
    [][\A r \in Requests, q \in Requests :
          (/\ req[q].kind = "register" /\ Done(q) /\ Kind(req[q].out) = "IssuedToken"
           /\ req[r].kind = "register" /\ req[r].name = req[q].name
           /\ req[r].password = req[r].confirm
           /\ Leaves(r, "validate") /\ req'[r].fault = "none")
          => /\ req'[r].out = DuplicateName /\ req'[r].pc = "done"
             /\ req'[r].user = 0
             /\ users' = users]_vars

C5_Witness ==
    \E r \in Requests, q \in Requests :
        /\ req[q].kind = "register" /\ Done(q) /\ Kind(req[q].out) = "IssuedToken"
        /\ req[r].kind = "register" /\ Done(r) /\ req[r].name = req[q].name
        /\ req[r].password = req[r].confirm
        /\ req[r].out = DuplicateName
        /\ Cardinality({i \in 1..Len(users) : users[i].name = req[q].name}) = 1

C7_ValidationIsPure ==
    [][\A r \in Requests :
          (req[r].kind = "register" /\ Leaves(r, "validate"))
          => /\ req[r].password # req[r].confirm => req'[r].out = PasswordMismatch
             /\ Kind(req'[r].out) \in {"PasswordMismatch", "DuplicateName"}
                    => req'[r].pc = "done" /\ req'[r].user = 0 /\ users' = users]_vars

C7_Witness ==
    \E r \in Requests :
        /\ req[r].kind = "register" /\ Done(r)
        /\ req[r].password # req[r].confirm /\ HasName(req[r].name)
        /\ req[r].out = PasswordMismatch

\* C8: on one login endpoint any two failed logins get the same response (status,
\* message, headers), whether the name is unknown or the password wrong.
C8_FailuresIndistinguishable ==
    \A r \in Requests, q \in Requests :
        (/\ IsLogin(r) /\ Done(r) /\ IsLogin(q) /\ Done(q)
         /\ req[r].kind = req[q].kind
         /\ Kind(req[r].out) # "IssuedToken" /\ Kind(req[q].out) # "IssuedToken")
        => /\ req[r].out = req[q].out
           /\ Kind(req[r].out) = "InvalidCredentials"

C8_Witness ==
    \E r \in Requests, q \in Requests :
        /\ IsLogin(r) /\ Done(r) /\ IsLogin(q) /\ Done(q) /\ req[r].kind = req[q].kind
        /\ ~HasName(req[r].name) /\ Kind(req[r].out) = "InvalidCredentials"
        /\ HasName(req[q].name) /\ Kind(req[q].out) = "InvalidCredentials"
        /\ req[q].fault = "none" /\ req[r].fault = "none"

\* C9: resolve without a token ends Unauthenticated; resolve with a token that is
\* malformed or whose signature does not verify ends InvalidToken; the two responses
\* differ and neither call gets to the user lookup.
C9_MissingVersusMalformed ==
    \A r \in Requests :
        (req[r].kind = "resolve" /\ req[r].pc # "decode")
        => /\ req[r].token.form = "none"
                => /\ Done(r) /\ req[r].out = CredentialsRequired
                   /\ Kind(req[r].out) = "Unauthenticated"
           /\ (req[r].token.form = "garbage" \/ (req[r].token.form = "jwt" /\ ~req[r].token.sig))
                => /\ Done(r) /\ req[r].out = InvalidTokenJwt
                   /\ Kind(req[r].out) = "InvalidToken"
                   /\ req[r].out # CredentialsRequired

C9_Witness ==
    \E r \in Requests, q \in Requests :
        /\ req[r].kind = "resolve" /\ Done(r) /\ req[r].token = NoToken
        /\ req[q].kind = "resolve" /\ Done(q) /\ req[q].token = Garbage

\* C10: a token whose exp lies before the time of resolution never resolves: the call
\* ends at the decode step with the invalid-token response; a token issued with a ttl
\* of -1 is in that case at every later resolution.
C10_ExpiredNeverResolves ==
    \A r \in Requests :
        (req[r].kind = "resolve" /\ req[r].pc # "decode" /\ req[r].token.form = "jwt")
        => /\ req[r].token.exp < req[r].at
                => Done(r) /\ req[r].out = InvalidTokenJwt /\ req[r].user = 0
           /\ \A i \in Requests :
                (/\ req[i].kind = "issue" /\ Done(i) /\ req[i].delta = Delta(0 - 1)
                 /\ req[i].out.token = req[r].token /\ req[i].at <= req[r].at)
                => Done(r) /\ req[r].out = InvalidTokenJwt /\ req[r].user = 0

C10_Witness ==
    \E r \in Requests, i \in Requests :
        /\ req[i].kind = "issue" /\ Done(i) /\ req[i].delta = Delta(0 - 1) /\ req[i].key = 1
        /\ HasKey(1)
        /\ req[r].kind = "resolve" /\ Done(r) /\ req[r].token = req[i].out.token
        /\ req[r].out = InvalidTokenJwt

\* C11: every resolve call ends in exactly one of Resolved, Unauthenticated and
\* InvalidToken, whatever the token and also when the user lookup faults; a call
\* is at the decode step, at the lookup step or over, never anywhere else.
C11_ThreeTerminalStates ==
    \A r \in Requests :
        req[r].kind = "resolve"
        => /\ req[r].pc \in {"decode", "lookup", "done"}
           /\ Done(r) => Kind(req[r].out) \in {"Resolved", "Unauthenticated", "InvalidToken"}

\* C12: the last_login_at of a user record never moves backward, in any step of any
\* interleaving of logins: not when two logins of one user each take their timestamp
\* and then commit in either order.
C12_LastLoginMonotone ==
    [][\A i \in 1..Len(users) :
          i <= Len(users') /\ users'[i].last_login_at >= users[i].last_login_at]_vars

C14_Frame ==
    [][/\ \A i \in 1..Len(users) :
            /\ i <= Len(users')
            /\ [users'[i] EXCEPT !.last_login_at = 0] = [users[i] EXCEPT !.last_login_at = 0]
       /\ req' = req => users' = users
       /\ \A r \in Requests :
            req'[r] # req[r]
            => /\ req'[r].kind \in {"issue", "resolve"} => users' = users
               /\ (IsLogin(r) /\ users' # users)
                      => /\ req[r].pc = "commit" /\ req[r].user # 0
                         /\ req[r].user = authenticate_user(users, req[r].name,
                                                            req[r].password, "none")
                         /\ Len(users') = Len(users)
                         /\ \A i \in 1..Len(users) : i # req[r].user => users'[i] = users[i]
               /\ (req'[r].kind \in LoginKinds /\ Kind(req'[r].out) = "InvalidCredentials")
                      => users' = users /\ req'[r].user = 0 /\ req'[r].ts = 0
               /\ (req[r].kind = "register" /\ users' # users)
                      => /\ req[r].pc = "commit"
                         /\ Len(users') = Len(users) + 1
                         /\ users'[Len(users')].name = req[r].name
                         /\ users'[Len(users')].password = get_password_hash(req[r].password)]_vars

\* a login has moved its user's last_login_at while the store holds a second row,
\* created by a register call, which still has the timestamp it was created with
C14_Witness ==
    \E r \in Requests, q \in Requests :
        /\ req[q].kind = "register" /\ Done(q) /\ Kind(req[q].out) = "IssuedToken"
        /\ IsLogin(r) /\ Done(r) /\ Kind(req[r].out) = "IssuedToken" /\ req[r].fault = "none"
        /\ req[r].user # req[q].user
        /\ req[r].ts > 0 /\ users[req[r].user].last_login_at = req[r].ts
        /\ users[req[q].user].last_login_at = req[q].ts /\ req[q].ts # req[r].ts

\* the state of the session of request record rq that get_db prescribes: none before
\* the request is taken up (and for a bare create_access_token call, which has no
\* session), open while the handler runs, closed once the request is over
HandleScoped(rq) ==
    IF rq.kind \in {"idle", "issue"} THEN rq.db = "none"
    ELSE IF rq.pc = "done" THEN rq.db = "closed"
    ELSE rq.db = "open"

\* C15: the persistence handle is request-scoped.  A request holds an open session
\* of its own exactly while its handler runs; the session is opened when the request
\* is taken up and closed in the step that ends it, whether by a return, a raised
\* HTTP error or an uncaught exception; a request that is over has its session
\* closed, and a closed session is neither reopened nor closed again.
C15_HandleReleasedOnce ==
    [][\A r \in Requests :
          /\ HandleScoped(req[r]) /\ HandleScoped(req'[r])
          /\ req[r].db = "closed" => req'[r] = req[r]
          /\ req'[r].db # req[r].db
                 => \/ req[r].db = "none" /\ req'[r].db = "open" /\ req[r].pc = "idle"
                    \/ req[r].db = "open" /\ req'[r].db = "closed" /\ req'[r].pc = "done"]_vars

\* one request ended by an exception nothing catches, another by a caught
\* persistence fault: both sessions are closed
C15_Witness ==
    \E r \in Requests, q \in Requests :
        /\ Done(r) /\ req[r].out = InternalServerError /\ req[r].db = "closed"
        /\ Done(q) /\ req[q].out = PersistenceFailure /\ req[q].db = "closed"

\* C16: of a token that is signed and not expired, a subject that is a string of
\* digits is coerced to the number it spells and the call gets to the lookup with it;
\* a subject that is a string spelling no number ends the call with InvalidToken
\* before any lookup; a subject that is a number already is taken as it is and the
\* call gets to the lookup with it.
C16_SubjectCoercion ==
    \A r \in Requests :
        (/\ req[r].kind = "resolve" /\ req[r].pc # "decode"
         /\ req[r].token.form = "jwt" /\ req[r].token.sig /\ req[r].token.exp >= req[r].at)
        => /\ (req[r].token.sub.t = "str" /\ int_ok(req[r].token.sub.s))
                  => /\ req[r].key = int(req[r].token.sub.s)
                     /\ Done(r) => Kind(req[r].out) # "InvalidToken"
           /\ (req[r].token.sub.t = "str" /\ ~int_ok(req[r].token.sub.s))
                  => /\ Done(r) /\ Kind(req[r].out) = "InvalidToken"
                     /\ req[r].key = 0 /\ req[r].user = 0
           /\ req[r].token.sub.t = "num"
                  => /\ req[r].key = req[r].token.sub.n
                     /\ Done(r) => Kind(req[r].out) # "InvalidToken"

\* C17: the exp claim of a token issued at time t with a ttl is t + ttl for every
\* ttl supplied, zero and negative ones included; the configured duration is used
\* only when no ttl is given.
C17_ExpiryIsNowPlusTtl ==
    \A i \in Requests :
        (req[i].kind = "issue" /\ Done(i))
        => req[i].out.token.exp = req[i].at + AskedTtl(req[i].delta)

\* C18: authenticate_user lets no fault out.  A login whose user query or password
\* verification raised is over with the InvalidCredentials response of its endpoint,
\* the same as after a wrong password, and never with an uncaught error; a login
\* goes past authentication only with a user whose name is exactly the one given and
\* whose stored hash the given password verifies against.
C18_AuthenticateSwallowsFaults ==
    \A r \in Requests :
        (IsLogin(r) /\ req[r].pc # "authenticate")
        => /\ req[r].fault \in {"query", "verify"}
                  => Done(r) /\ req[r].out = InvalidCredentials(req[r].kind) /\ req[r].user = 0
           /\ req[r].user = 0
                  => Done(r) /\ req[r].out = InvalidCredentials(req[r].kind)
           /\ req[r].user # 0
                  => /\ HasKey(req[r].user)
                     /\ users[req[r].user].name = req[r].name
                     /\ verify_password(req[r].password, users[req[r].user].password)
           /\ Done(r) => Kind(req[r].out) \in {"IssuedToken", "InvalidCredentials"}

C18_Witness ==
    \E r \in Requests, q \in Requests :
        /\ IsLogin(r) /\ Done(r) /\ req[r].fault = "verify" /\ req[r].name = "alice"
        /\ req[r].password = "p1" /\ req[r].out = InvalidCredentials(req[r].kind)
        /\ IsLogin(q) /\ Done(q) /\ req[q].fault = "query"
        /\ req[q].out = InvalidCredentials(req[q].kind)

\* C19: a resolve call with a signed, unexpired token whose subject is a string
\* spelling a number that is no user's identity key ends, its query not faulting,
\* with the user-not-found response, which is Unauthenticated and neither
\* InvalidToken nor a user; and whatever happens, a token issued for a key that no
\* user has is never resolved to a user.
C19_UnknownSubjectUnauthenticated ==
    \A r \in Requests :
        (/\ req[r].kind = "resolve" /\ Done(r)
         /\ req[r].token.form = "jwt" /\ req[r].token.sig /\ req[r].token.exp >= req[r].at
         /\ req[r].token.sub.t = "str" /\ int_ok(req[r].token.sub.s)
         /\ ~HasKey(int(req[r].token.sub.s)))
        => /\ req[r].fault = "none"
                  => req[r].out = UserNotFound /\ Kind(req[r].out) = "Unauthenticated"
           /\ Kind(req[r].out) # "Resolved" /\ req[r].user = 0

C19_Witness ==
    \E r \in Requests, i \in Requests :
        /\ req[i].kind = "issue" /\ Done(i) /\ req[i].key = 12 /\ ~HasKey(12)
        /\ req[r].kind = "resolve" /\ Done(r) /\ req[r].token = req[i].out.token
        /\ Len(users) > 0
        /\ req[r].out = UserNotFound

\* C20: every IssuedToken that a register or a login call returned has token type
\* bearer and carries the identity key and the name of one row of the store, and the
\* subject of its token is the decimal string of that key; the row a register call
\* answers with is the one that call created.
C20_IssuedTokenNamesOneUser ==
    \A r \in Requests :
        (/\ (IsLogin(r) \/ req[r].kind = "register")
         /\ Done(r) /\ req[r].out.status = 200)
        => /\ req[r].out.detail = "bearer"
           /\ HasKey(req[r].out.user_id)
           /\ users[req[r].out.user_id].user_id = req[r].out.user_id
           /\ users[req[r].out.user_id].name = req[r].out.user_name
           /\ req[r].out.token.form = "jwt" /\ req[r].out.token.sig
           /\ req[r].out.token.sub = StrSub(str(req[r].out.user_id))
           /\ req[r].kind = "register"
                  => /\ req[r].out.user_id = req[r].user
                     /\ req[r].out.user_name = req[r].name
                     /\ users[req[r].user].password = get_password_hash(req[r].password)
                     /\ users[req[r].user].categories = join(req[r].categories)

\* a register call was answered with the second row of the store, and a login with
\* that row too
C20_Witness ==
    \E r \in Requests, q \in Requests :
        /\ req[r].kind = "register" /\ Done(r) /\ Kind(req[r].out) = "IssuedToken"
        /\ req[r].out.user_id = 2 /\ req[r].out.token.sub = StrSub(<<"2">>)
        /\ IsLogin(q) /\ Done(q) /\ Kind(req[q].out) = "IssuedToken"
        /\ req[q].out.user_id = 2

====
